---- MODULE Spec2Model ----
(***************************************************************************)
(* The hostel notice board of backend/app.py: an in-memory list of notices *)
(* guarded by notice_lock, a sliding-window rate limiter, racy statistics  *)
(* counters, and a janitor thread that reclaims expired notices.           *)
(*                                                                         *)
(* Threads are the Flask request threads (Handlers) and the janitor.  Each *)
(* thread has a program counter; one action is one atomic step of the      *)
(* Python code (a statement, or a critical section's piece).               *)
(***************************************************************************)
EXTENDS Integers, Sequences, FiniteSets, TLC

(* ------------------------------ bounds -------------------------------- *)
\* The clock advances in steps of TickSeconds, MaxTicks times at most.
TickSeconds == 30
MaxTicks == 1
\* uuid4 is called at most about MaxIds times (the guard is on the request).
MaxIds == 2
\* A batch holds at most MaxBatch items.
MaxBatch == 2
\* Caps on the counters, applied when a request arrives.
MaxRequests == 3
MaxRejects == 2

(* ------------------------- program constants -------------------------- *)
RATE_LIMIT == 10
RATE_WINDOW == 60

(* ------------------------------ threads ------------------------------- *)
Handlers == {"h1", "h2"}
Janitor == "jan"
Threads == Handlers \cup {Janitor}
NoThread == "free"
Clients == {"c1"}

(* ------------------------------ strings ------------------------------- *)
\* A string is a sequence of characters.  A character is a record: a plain
\* character c, or the token an ISO-8601 timestamp of clock value t prints as.
Ch(c) == [k |-> c, t |-> 0]
Ts(t) == [k |-> "ts", t |-> t]
SP == Ch(" ")
\* A key absent from the JSON object.
Missing == <<Ch("missing")>>

RECURSIVE LStrip(_)
LStrip(s) == IF s = <<>> THEN s
             ELSE IF Head(s) = SP THEN LStrip(Tail(s)) ELSE s

RECURSIVE RStrip(_)
RStrip(s) == IF s = <<>> THEN s
             ELSE IF s[Len(s)] = SP THEN RStrip(SubSeq(s, 1, Len(s) - 1)) ELSE s

\* str.strip()
Strip(s) == RStrip(LStrip(s))

\* dict.get(key, "")
Get(d, key) == IF d[key] = Missing THEN <<>> ELSE d[key]

\* datetime.isoformat()
IsoFormat(t) == <<Ts(t)>>

\* datetime.fromisoformat(s) parses exactly a timestamp; anything else raises.
Parses(s) == Len(s) = 1 /\ s[1].k = "ts"
FromIso(s) == s[1].t

(* ------------------------------- inputs ------------------------------- *)
MaxTime == MaxTicks * TickSeconds
\* Expiry times: one the clock reaches, one it never does.
ExpiryTimes == {TickSeconds, MaxTime + TickSeconds}
NoData == [title |-> Missing, message |-> Missing, date |-> Missing, expires_at |-> Missing]
\* bool(data): an object with no key is falsy.
Truthy(d) == \E f \in DOMAIN d : d[f] # Missing

\* The JSON objects of POST /notices: well-formed ones, and ones with one
\* field missing, blank, unparseable, padded or already expired.
Good == [title |-> <<SP, Ch("a"), SP>>, message |-> <<Ch("m")>>, date |-> <<Ch("d")>>,
         expires_at |-> <<Ts(MaxTime + TickSeconds)>>]
\* The well-formed object whose notice the clock outlives.
Brief == [Good EXCEPT !.expires_at = <<Ts(TickSeconds)>>]
GoodPayloads == {[Good EXCEPT !.expires_at = <<Ts(e)>>] : e \in ExpiryTimes}
BadPayloads ==
  {NoData,
   [Good EXCEPT !.title = Missing], [Good EXCEPT !.title = <<SP>>],
   [Good EXCEPT !.message = Missing], [Good EXCEPT !.message = <<SP, SP>>],
   [Good EXCEPT !.date = Missing], [Good EXCEPT !.date = <<SP>>],
   [Good EXCEPT !.expires_at = Missing], [Good EXCEPT !.expires_at = <<SP>>],
   [Good EXCEPT !.expires_at = <<Ch("x")>>],
   [Good EXCEPT !.expires_at = <<Ts(0)>>]}
Payloads ==
  GoodPayloads \cup BadPayloads \cup {[Good EXCEPT !.expires_at = <<SP, Ts(TickSeconds), SP>>]}

\* The arrays of POST /notices/batch, of at most MaxBatch items.
BatchItems ==
  {[Good EXCEPT !.expires_at = <<Ts(TickSeconds)>>], Good,
   [Good EXCEPT !.title = <<SP>>], [Good EXCEPT !.expires_at = <<Ch("x")>>]}
BatchLists == UNION {[1..k -> BatchItems] : k \in 0..MaxBatch}

\* The JSON objects of PATCH /notices/<id> (date is never read).
Patch(ti, me, ex) == [title |-> ti, message |-> me, date |-> Missing, expires_at |-> ex]
Patches ==
  {NoData,
   Patch(<<Ch("c"), SP>>, Missing, Missing), Patch(<<SP>>, <<Ch("n")>>, Missing),
   Patch(Missing, Missing, <<Ch("x")>>), Patch(<<Ch("c")>>, Missing, <<Ts(0)>>)}
     \cup {Patch(Missing, Missing, <<Ts(e)>>) : e \in ExpiryTimes}
\* The <notice_id> of a URL: an id that was or will be drawn, or one that never is.
NoSuchId == 0
IdsIn == 0..MaxIds

\* The query of GET /notices.
SearchIn == {<<>>, <<Ch("A")>>}
SortIn == {"created_at", "updated_at", "priority"}
LimitIn == {0, 1}

Counted == {"get_notices", "add_notice", "add_notices_batch", "update_notice", "delete_notice"}
StoreOps == Counted
RateOps == {"home"}
ReadOps == {"health_check", "get_stats"}

(* ------------------------------- state -------------------------------- *)
VARIABLES
  now,              \* the wall clock, in seconds
  notices,          \* the list of notice records
  notice_lock,      \* the thread holding the lock, or NoThread
  stats,            \* the statistics dict
  request_tracker,  \* client -> list of request times
  issued,           \* number of uuid4 values drawn so far
  pc,               \* thread -> label of its next step
  loc,              \* thread -> its local variables
  hist              \* history: what the claims speak of and the code does not keep:
                    \*   ever: the ids of all notices ever stored;
                    \*   pass: {the clock value the last reclamation pass read},
                    \*         or NoPass once the list has changed since;
                    \*   accepted: client -> the times of all calls let through;
                    \*   inserts: the number of POST /notices that passed validation;
                    \*   reclaims: the number of passes that removed a notice

vars == <<now, notices, notice_lock, stats, request_tracker, issued, pc, loc, hist>>

None == <<>>
NoPass == {}

\* The query of a GET /notices that names none.
NoQuery == [search |-> <<>>, sort_by |-> "created_at", limit |-> 0]

\* A thread's locals.  query: request.args; id: <notice_id>; now: the local `now`; kept: the list
\* comprehension of check_rate_limit; valid: valid_notices; reg: a value read
\* and not yet written back, initial_count, or the batch index; batch: the
\* array of the request; items: the items of the batch still to come; resp: the JSON
\* body of the answer of /health and /stats; out: the notices of the response.
Locals(o) ==
  [op |-> o, ip |-> CHOOSE c \in Clients : TRUE, data |-> NoData, id |-> NoSuchId,
   now |-> 0, kept |-> <<>>, valid |-> <<>>, reg |-> 0, status |-> "none",
   out |-> <<>>, batch |-> <<>>, items |-> <<>>, added |-> <<>>, errors |-> <<>>,
   query |-> NoQuery, resp |-> None]

Init ==
  /\ now = 0
  /\ notices = <<>>
  /\ notice_lock = NoThread
  /\ stats = [total_notices_created |-> 0, total_requests |-> 0, auto_cleanups |-> 0,
              last_cleanup |-> None, rate_limited_requests |-> 0]
  /\ request_tracker = [c \in Clients |-> <<>>]
  /\ issued = 0
  /\ pc = [t \in Threads |-> IF t = Janitor THEN "sleep" ELSE "idle"]
  /\ loc = [t \in Threads |-> Locals(IF t = Janitor THEN "janitor" ELSE "none")]
  /\ hist = [ever |-> {}, pass |-> NoPass, accepted |-> [c \in Clients |-> <<>>],
             inserts |-> 0, reclaims |-> 0]

(* ------------------------------ helpers ------------------------------- *)
\* A pruning that keeps the entry exactly one window old.
RECURSIVE RecentInclusive(_, _)
RecentInclusive(s, cutoff) ==
  IF s = <<>> THEN <<>>
  ELSE IF Head(s) >= cutoff THEN <<Head(s)>> \o RecentInclusive(Tail(s), cutoff)
       ELSE RecentInclusive(Tail(s), cutoff)

\* [req_time for req_time in s if req_time > cutoff]
RECURSIVE Recent(_, _)
Recent(s, cutoff) ==
  IF s = <<>> THEN <<>>
  ELSE IF Head(s) > cutoff THEN <<Head(s)>> \o Recent(Tail(s), cutoff)
       ELSE Recent(Tail(s), cutoff)

\* A reclamation that keeps the notice expiring at this very instant.
StillValidInclusive(n, t) == Parses(n.expires_at) /\ FromIso(n.expires_at) >= t

\* The try/except of the cleanup loop: keep n iff its expiry parses and is > t.
StillValid(n, t) == Parses(n.expires_at) /\ FromIso(n.expires_at) > t

\* A reclamation that removes from the list it iterates over, and so skips
\* the notice after each one it removes.
RECURSIVE ValidNoticesSkipping(_, _)
ValidNoticesSkipping(s, t) ==
  IF s = <<>> THEN <<>>
  ELSE IF StillValid(Head(s), t) THEN <<Head(s)>> \o ValidNoticesSkipping(Tail(s), t)
  ELSE IF Len(s) >= 2 THEN <<s[2]>> \o ValidNoticesSkipping(Tail(Tail(s)), t)
  ELSE <<>>

\* valid_notices of lines 105-113.
RECURSIVE ValidNotices(_, _)
ValidNotices(s, t) ==
  IF s = <<>> THEN <<>>
  ELSE IF StillValid(Head(s), t) THEN <<Head(s)>> \o ValidNotices(Tail(s), t)
       ELSE ValidNotices(Tail(s), t)

\* A lock that never makes anybody wait.
CanAcquireAlways(t) == TRUE

\* threading.Lock: acquire succeeds only when nobody holds it.
CanAcquire(t) == notice_lock = NoThread

\* An id counted from the length of the list.
NewIdByLength == Len(notices) + 1

\* str(uuid.uuid4()): a value never drawn before.
NewId == issued + 1

Ids(s) == {s[i].id : i \in 1..Len(s)}
\* A lookup that takes the first notice, whatever its id.
FindAny(s, id) == IF s # <<>> THEN 1 ELSE 0

\* The index of the first notice with this id, or 0.
Find(s, id) ==
  IF id \in Ids(s) THEN CHOOSE i \in 1..Len(s) : s[i].id = id /\ \A j \in 1..(i - 1) : s[j].id # id
  ELSE 0
\* list.pop(i)
Pop(s, i) == SubSeq(s, 1, i - 1) \o SubSeq(s, i + 1, Len(s))

Goto(t, l) == pc' = [pc EXCEPT ![t] = l]
Local(t, r) == loc' = [loc EXCEPT ![t] = r]
\* The history after a step of a handler: a change of the list ends the
\* succession of reclamation passes, and new ids are remembered.
Remember == hist' = [hist EXCEPT !.ever = @ \cup Ids(notices'),
                                  !.pass = IF notices' = notices THEN @ ELSE NoPass]

(* -------------------------- the wall clock ---------------------------- *)
Tick(limit) ==
  /\ now + TickSeconds <= limit
  /\ now' = now + TickSeconds
  /\ UNCHANGED <<notices, notice_lock, stats, request_tracker, issued, pc, loc, hist>>

(* --------------------- a request arrives (Flask) ---------------------- *)
Begin(t, ops) ==
  /\ pc[t] = "idle"
  /\ stats.rate_limited_requests < MaxRejects
  /\ \E o \in ops, c \in Clients :
       /\ o \in Counted => stats.total_requests < MaxRequests
       /\ o \in ReadOps => Len(hist.accepted[c]) < MaxRequests
       /\ o \in {"add_notice", "add_notices_batch"} => issued < MaxIds
       /\ Local(t, [loc[t] EXCEPT !.op = o, !.ip = c])
  /\ Goto(t, "rl_start")
  /\ UNCHANGED <<now, notices, notice_lock, stats, request_tracker, issued, hist>>

(* -------------------- check_rate_limit, lines 37-51 ------------------- *)
\* lines 38-44, the right-hand side: now, cutoff and the pruned list.
RlPrune(t) ==
  /\ pc[t] = "rl_start"
  /\ Local(t, [loc[t] EXCEPT !.now = now,
                             !.kept = Recent(request_tracker[loc[t].ip], now - RATE_WINDOW)])
  /\ Goto(t, "rl_store")
  /\ UNCHANGED <<now, notices, notice_lock, stats, request_tracker, issued, hist>>

\* line 41, the assignment to request_tracker[client_ip].
RlStore(t) ==
  /\ pc[t] = "rl_store"
  /\ request_tracker' = [request_tracker EXCEPT ![loc[t].ip] = loc[t].kept]
  /\ Local(t, [loc[t] EXCEPT !.kept = <<>>])
  /\ Goto(t, "rl_check")
  /\ UNCHANGED <<now, notices, notice_lock, stats, issued, hist>>

\* line 46, and line 47's read of the counter when the limit is reached.
RlCheck(t) ==
  /\ pc[t] = "rl_check"
  /\ IF Len(request_tracker[loc[t].ip]) >= RATE_LIMIT
       THEN /\ Local(t, [loc[t] EXCEPT !.reg = stats.rate_limited_requests])
            /\ Goto(t, "rl_reject")
       ELSE /\ loc' = loc
            /\ Goto(t, "rl_append")
  /\ UNCHANGED <<now, notices, notice_lock, stats, request_tracker, issued, hist>>

\* line 47's write and line 48; before_request answers 429 (lines 63-68).
RlReject(t) ==
  /\ pc[t] = "rl_reject"
  /\ stats' = [stats EXCEPT !.rate_limited_requests = loc[t].reg + 1]
  /\ Local(t, [loc[t] EXCEPT !.reg = 0, !.status = "RATE_LIMITED"])
  /\ Goto(t, "done")
  /\ UNCHANGED <<now, notices, notice_lock, request_tracker, issued, hist>>

\* The first label of each route's handler.
Entry(o) == IF o \in Counted THEN "tr_read" ELSE o

\* lines 50-51: record the call and let the request through.
RlAppend(t) ==
  /\ pc[t] = "rl_append"
  /\ request_tracker' = [request_tracker EXCEPT ![loc[t].ip] = Append(@, loc[t].now)]
  /\ hist' = [hist EXCEPT !.accepted[loc[t].ip] = Append(@, loc[t].now)]
  /\ Local(t, [loc[t] EXCEPT !.now = 0])
  /\ Goto(t, Entry(loc[t].op))
  /\ UNCHANGED <<now, notices, notice_lock, stats, issued>>

(* ------------------------- home, lines 131-146 ------------------------ *)
Home(t) ==
  /\ pc[t] = "home"
  /\ Local(t, [loc[t] EXCEPT !.status = "OK"])
  /\ Goto(t, "done")
  /\ UNCHANGED <<now, notices, notice_lock, stats, request_tracker, issued, hist>>

(* --------------------- health_check, lines 149-164 -------------------- *)
\* lines 151-153: under the lock, notice_count = len(notices).
HealthCount(t) ==
  /\ pc[t] = "health_check"
  /\ CanAcquire(t)
  /\ Local(t, [loc[t] EXCEPT !.reg = Len(notices)])
  /\ Goto(t, "health_size")
  /\ UNCHANGED <<now, notices, notice_lock, stats, request_tracker, issued, hist>>

\* len(str(notices)): the size of the list's text, counted in notices.
Size(s) == Len(s)

\* lines 155-164: the lock has been released; line 163 reads notices again.
HealthSize(t) ==
  /\ pc[t] = "health_size"
  /\ Local(t, [loc[t] EXCEPT !.reg = 0, !.status = "OK",
                 !.resp = [notices_count |-> loc[t].reg, memory_usage |-> Size(notices)]])
  /\ Goto(t, "done")
  /\ UNCHANGED <<now, notices, notice_lock, stats, request_tracker, issued, hist>>

(* ---------------------- get_stats, lines 167-175 ---------------------- *)
\* The whole answer is built under the lock.
GetStats(t) ==
  /\ pc[t] = "get_stats"
  /\ CanAcquire(t)
  /\ Local(t, [loc[t] EXCEPT !.status = "OK",
                 !.resp = [stats |-> stats, active_notices |-> Len(notices),
                           server_time |-> IsoFormat(now)]])
  /\ Goto(t, "done")
  /\ UNCHANGED <<now, notices, notice_lock, stats, request_tracker, issued, hist>>

(* --------------- stats["total_requests"] += 1 (no lock) --------------- *)
\* The read of lines 180, 214, 257, 307 and 340.
TrRead(t) ==
  /\ pc[t] = "tr_read"
  /\ Local(t, [loc[t] EXCEPT !.reg = stats.total_requests])
  /\ Goto(t, "tr_write")
  /\ UNCHANGED <<now, notices, notice_lock, stats, request_tracker, issued, hist>>

\* The first label after the counter, per route.
AfterCount(o) == IF o = "get_notices" THEN "cl_start" ELSE o

\* The write of the same lines.
TrWrite(t) ==
  /\ pc[t] = "tr_write"
  /\ stats' = [stats EXCEPT !.total_requests = loc[t].reg + 1]
  /\ Local(t, [loc[t] EXCEPT !.reg = 0])
  /\ Goto(t, AfterCount(loc[t].op))
  /\ UNCHANGED <<now, notices, notice_lock, request_tracker, issued, hist>>

(* --------------- cleanup_expired_notices, lines 99-121 ---------------- *)
\* A reclamation whose `now` was evaluated once, when the process started.
ClStartStale(t) ==
  /\ pc[t] = "cl_start"
  /\ Local(t, [loc[t] EXCEPT !.now = 0])
  /\ Goto(t, "cl_lock")
  /\ UNCHANGED <<now, notices, notice_lock, stats, request_tracker, issued, hist>>

\* line 101: now is read before the lock is taken.
ClStart(t) ==
  /\ pc[t] = "cl_start"
  /\ Local(t, [loc[t] EXCEPT !.now = now])
  /\ Goto(t, "cl_lock")
  /\ UNCHANGED <<now, notices, notice_lock, stats, request_tracker, issued, hist>>

\* lines 103-113: take the lock, count, and build valid_notices.
ClScan(t) ==
  /\ pc[t] = "cl_lock"
  /\ CanAcquire(t)
  /\ notice_lock' = t
  /\ Local(t, [loc[t] EXCEPT !.reg = Len(notices), !.valid = ValidNotices(notices, loc[t].now)])
  /\ Goto(t, "cl_commit")
  /\ UNCHANGED <<now, notices, stats, request_tracker, issued, hist>>

\* A reclamation that counts itself also when it removed nothing.
ClCommitCountsEvery(t) ==
  /\ pc[t] = "cl_commit"
  /\ notices' = loc[t].valid
  /\ stats' = IF loc[t].reg - Len(loc[t].valid) >= 0
                THEN [stats EXCEPT !.auto_cleanups = @ + 1,
                                   !.last_cleanup = IsoFormat(now)]
                ELSE stats
  /\ notice_lock' = NoThread
  /\ hist' = [hist EXCEPT !.pass = {loc[t].now},
                          !.reclaims = IF notices' # notices THEN @ + 1 ELSE @]
  /\ Local(t, [loc[t] EXCEPT !.valid = <<>>, !.now = 0, !.reg = 0])
  /\ Goto(t, IF t = Janitor THEN "sleep" ELSE "list")
  /\ UNCHANGED <<now, request_tracker, issued>>

\* lines 115-121: replace the list, update the stats, release the lock.
ClCommit(t) ==
  /\ pc[t] = "cl_commit"
  /\ notices' = loc[t].valid
  /\ stats' = IF loc[t].reg - Len(loc[t].valid) > 0
                THEN [stats EXCEPT !.auto_cleanups = @ + 1,
                                   !.last_cleanup = IsoFormat(now)]
                ELSE stats
  /\ notice_lock' = NoThread
  /\ hist' = [hist EXCEPT !.pass = {loc[t].now},
                          !.reclaims = IF notices' # notices THEN @ + 1 ELSE @]
  /\ Local(t, [loc[t] EXCEPT !.valid = <<>>, !.now = 0, !.reg = 0])
  /\ Goto(t, IF t = Janitor THEN "sleep" ELSE "list")
  /\ UNCHANGED <<now, request_tracker, issued>>

(* ------------------ auto_cleanup_worker, lines 124-127 ---------------- *)
\* time.sleep(60) returns; the model clock is too coarse to time it.
Wake ==
  /\ pc[Janitor] = "sleep"
  /\ Goto(Janitor, "cl_start")
  /\ UNCHANGED <<now, notices, notice_lock, stats, request_tracker, issued, loc, hist>>

(* --------------------- get_notices, lines 178-209 --------------------- *)
\* str.lower()
LowerCh(c) == IF c = Ch("A") THEN Ch("a") ELSE IF c = Ch("B") THEN Ch("b") ELSE c
Lower(s) == [i \in 1..Len(s) |-> LowerCh(s[i])]
\* sub in s
Contains(s, sub) == \E i \in 1..(Len(s) - Len(sub) + 1) : SubSeq(s, i, i + Len(sub) - 1) = sub

\* The list comprehension of lines 191-194.
RECURSIVE Filtered(_, _)
Filtered(s, search) ==
  IF s = <<>> THEN <<>>
  ELSE IF Contains(Lower(Head(s).title), search) \/ Contains(Lower(Head(s).message), search)
         THEN <<Head(s)>> \o Filtered(Tail(s), search)
         ELSE Filtered(Tail(s), search)

\* x.get(sort_by, ""): a key the notice lacks reads as "".
Key(n, k) == IF k \in DOMAIN n THEN n[k] ELSE <<>>
\* a < b for the strings the keys hold: "" or one timestamp.
KeyLess(a, b) == b # <<>> /\ (a = <<>> \/ a[1].t < b[1].t)

\* sorted(s, key, reverse): stable, also when reversed.
InsertAt(s, x, k, reverse) ==
  LET before(i) == IF reverse THEN KeyLess(Key(s[i], k), Key(x, k))
                              ELSE KeyLess(Key(x, k), Key(s[i], k))
      hits == {i \in 1..Len(s) : before(i)}
      p == IF hits = {} THEN Len(s) + 1 ELSE CHOOSE i \in hits : \A j \in hits : i <= j
  IN SubSeq(s, 1, p - 1) \o <<x>> \o SubSeq(s, p, Len(s))

\* A sort that forgets reverse and always sorts ascending.
RECURSIVE SortedByAscending(_, _, _)
SortedByAscending(s, k, reverse) ==
  IF s = <<>> THEN <<>>
  ELSE InsertAt(SortedByAscending(SubSeq(s, 1, Len(s) - 1), k, reverse), s[Len(s)], k, FALSE)

RECURSIVE SortedBy(_, _, _)
SortedBy(s, k, reverse) ==
  IF s = <<>> THEN <<>>
  ELSE InsertAt(SortedBy(SubSeq(s, 1, Len(s) - 1), k, reverse), s[Len(s)], k, reverse)

\* lines 188-204 for a query.
Listing(s, search, sort_by, limit) ==
  LET filtered == IF search # <<>> THEN Filtered(s, search) ELSE s
      sorted_notices == SortedBy(filtered, sort_by, sort_by = "created_at")
  IN IF limit > 0 THEN SubSeq(sorted_notices, 1, IF limit < Len(sorted_notices) THEN limit ELSE Len(sorted_notices))
     ELSE sorted_notices

\* lines 183-209: under the lock, filter, sort and cut the list; answer 200.
ListRead(t) ==
  /\ pc[t] = "list"
  /\ CanAcquire(t)
  /\ \E search \in SearchIn, sort_by \in SortIn, limit \in LimitIn :
       Local(t, [loc[t] EXCEPT !.out = Listing(notices, Lower(search), sort_by, limit),
                               !.query = [search |-> search, sort_by |-> sort_by, limit |-> limit],
                               !.status = "OK"])
  /\ Goto(t, "done")
  /\ UNCHANGED <<now, notices, notice_lock, stats, request_tracker, issued, hist>>

(* ---------------------- add_notice, lines 212-252 --------------------- *)
\* all([title, message, date, expires_at]) of the stripped fields.
AllPresent(d) == \A f \in {"title", "message", "date", "expires_at"} : Strip(Get(d, f)) # <<>>

\* A comparison that lets an expiry equal to now through.
ExpiredStrict(expiry, t) == expiry < t

\* expiry <= datetime.now()
Expired(expiry, t) == expiry <= t

\* The outcome of lines 217-233 for JSON object d at clock value t.
Validate(d, t) ==
  IF ~Truthy(d) THEN "INVALID_JSON"
  ELSE IF ~AllPresent(d) THEN "MISSING_FIELDS"
  ELSE IF ~Parses(Strip(Get(d, "expires_at"))) THEN "INVALID_FORMAT"
  ELSE IF Expired(FromIso(Strip(Get(d, "expires_at"))), t) THEN "INVALID_EXPIRY"
  ELSE "valid"

\* The record built at lines 236-243 and 283-290.
NewNotice(d, id, t) ==
  [id |-> id,
   title |-> Strip(Get(d, "title")),
   message |-> Strip(Get(d, "message")),
   date |-> Strip(Get(d, "date")),
   expires_at |-> Strip(Get(d, "expires_at")),
   created_at |-> IsoFormat(t),
   updated_at |-> None]

\* lines 215-233: read the JSON object and validate it, outside the lock.
AddValidate(t, payloads) ==
  /\ pc[t] = "add_notice"
  /\ \E d \in payloads :
       /\ Local(t, [loc[t] EXCEPT !.data = d,
                      !.status = IF Validate(d, now) = "valid" THEN @ ELSE Validate(d, now)])
       /\ Goto(t, IF Validate(d, now) = "valid" THEN "add_lock" ELSE "done")
       /\ hist' = [hist EXCEPT !.inserts = IF Validate(d, now) = "valid" THEN @ + 1 ELSE @]
  /\ UNCHANGED <<now, notices, notice_lock, stats, request_tracker, issued>>

\* lines 235-244: take the lock, build the notice, append it.
AddAppend(t) ==
  /\ pc[t] = "add_lock"
  /\ CanAcquire(t)
  /\ notice_lock' = t
  /\ issued' = issued + 1
  /\ notices' = Append(notices, NewNotice(loc[t].data, NewId, now))
  /\ Local(t, [loc[t] EXCEPT !.out = <<NewNotice(loc[t].data, NewId, now)>>])
  /\ Remember
  /\ Goto(t, "add_count")
  /\ UNCHANGED <<now, stats, request_tracker>>

\* line 245, the end of the with block, and the 201 answer.
AddCount(t) ==
  /\ pc[t] = "add_count"
  /\ stats' = [stats EXCEPT !.total_notices_created = @ + 1]
  /\ notice_lock' = NoThread
  /\ Local(t, [loc[t] EXCEPT !.status = "CREATED"])
  /\ Goto(t, "done")
  /\ UNCHANGED <<now, notices, request_tracker, issued, hist>>

(* ------------------ add_notices_batch, lines 255-302 ------------------ *)
\* lines 258-264: read the JSON value; anything but an array is refused.
BatchStart(t) ==
  /\ pc[t] = "add_notices_batch"
  /\ \/ /\ Local(t, [loc[t] EXCEPT !.status = "INVALID_PAYLOAD"])
        /\ Goto(t, "done")
     \/ \E l \in BatchLists :
          /\ Local(t, [loc[t] EXCEPT !.batch = l, !.items = l])
          /\ Goto(t, "batch_lock")
  /\ UNCHANGED <<now, notices, notice_lock, stats, request_tracker, issued, hist>>

\* line 266
BatchLock(t) ==
  /\ pc[t] = "batch_lock"
  /\ CanAcquire(t)
  /\ notice_lock' = t
  /\ Goto(t, "batch_item")
  /\ UNCHANGED <<now, notices, stats, request_tracker, issued, loc, hist>>

\* A validation of the items that forgets the check for missing fields.
ItemOutcomeNoFields(d, t) ==
  IF ~Parses(Strip(Get(d, "expires_at"))) THEN "Invalid isoformat string"
  ELSE IF FromIso(Strip(Get(d, "expires_at"))) <= t THEN "Expiry in past"
  ELSE "valid"

\* The outcome of lines 269-281 for item d at clock value t.
ItemOutcome(d, t) ==
  IF ~AllPresent(d) THEN "Missing fields"
  ELSE IF ~Parses(Strip(Get(d, "expires_at"))) THEN "Invalid isoformat string"
  ELSE IF Expired(FromIso(Strip(Get(d, "expires_at"))), t) THEN "Expiry in past"
  ELSE "valid"

\* lines 267-281 and 295-296: validate the next item; a failure is recorded.
BatchCheck(t) ==
  /\ pc[t] = "batch_item"
  /\ loc[t].items # <<>>
  /\ LET d == Head(loc[t].items)
         r == ItemOutcome(d, now)
     IN IF r = "valid"
          THEN /\ loc' = loc
               /\ Goto(t, "batch_append")
          ELSE /\ Local(t, [loc[t] EXCEPT
                      !.errors = Append(@, [index |-> loc[t].reg, error |-> r]),
                      !.items = Tail(@), !.reg = @ + 1])
               /\ Goto(t, "batch_item")
  /\ UNCHANGED <<now, notices, notice_lock, stats, request_tracker, issued, hist>>

\* lines 283-293: build the notice (a second reading of the clock), append, count.
BatchAppend(t) ==
  /\ pc[t] = "batch_append"
  /\ issued' = issued + 1
  /\ notices' = Append(notices, NewNotice(Head(loc[t].items), NewId, now))
  /\ stats' = [stats EXCEPT !.total_notices_created = @ + 1]
  /\ Local(t, [loc[t] EXCEPT !.added = Append(@, NewId), !.items = Tail(@), !.reg = @ + 1])
  /\ Remember
  /\ Goto(t, "batch_item")
  /\ UNCHANGED <<now, notice_lock, request_tracker>>

\* The loop ends: the lock is released; 201 if anything was added, else 400.
BatchEnd(t) ==
  /\ pc[t] = "batch_item"
  /\ loc[t].items = <<>>
  /\ notice_lock' = NoThread
  /\ Local(t, [loc[t] EXCEPT !.reg = 0,
                 !.status = IF loc[t].added # <<>> THEN "CREATED" ELSE "BAD_REQUEST"])
  /\ Goto(t, "done")
  /\ UNCHANGED <<now, notices, stats, request_tracker, issued, hist>>

(* --------------------- update_notice, lines 305-335 ------------------- *)
\* lines 308-311
UpdateStart(t) ==
  /\ pc[t] = "update_notice"
  /\ \E id \in IdsIn, d \in Patches :
       /\ Local(t, [loc[t] EXCEPT !.id = id, !.data = d,
                      !.status = IF Truthy(d) THEN @ ELSE "NO_DATA"])
       /\ Goto(t, IF Truthy(d) THEN "update_lock" ELSE "done")
  /\ UNCHANGED <<now, notices, notice_lock, stats, request_tracker, issued, hist>>

\* lines 316-319: the title and the message of the payload, stripped.
Retitled(n, d) ==
  [n EXCEPT !.title = IF d.title # Missing THEN Strip(d.title) ELSE @,
            !.message = IF d.message # Missing THEN Strip(d.message) ELSE @]

\* lines 320-327: whether the payload's expires_at is refused.
ExpiryRefused(d, t) ==
  d.expires_at # Missing /\ (~Parses(d.expires_at) \/ Expired(FromIso(d.expires_at), t))

\* lines 316-329 on notice n: the notice as the handler leaves it.
Updated(n, d, t) ==
  IF ExpiryRefused(d, t) THEN Retitled(n, d)
  ELSE [Retitled(n, d) EXCEPT !.expires_at = IF d.expires_at # Missing THEN d.expires_at ELSE @,
                              !.updated_at = IsoFormat(t)]

\* lines 313-335: under the lock, find the notice and change it.
UpdateBody(t) ==
  /\ pc[t] = "update_lock"
  /\ CanAcquire(t)
  /\ LET i == Find(notices, loc[t].id)
         d == loc[t].data
     IN IF i = 0
          THEN /\ notices' = notices
               /\ Local(t, [loc[t] EXCEPT !.status = "NOT_FOUND"])
          ELSE /\ notices' = [notices EXCEPT ![i] = Updated(@, d, now)]
               /\ Local(t, [loc[t] EXCEPT
                      !.status = IF ExpiryRefused(d, now) THEN "BAD_REQUEST" ELSE "OK",
                      !.out = IF ExpiryRefused(d, now) THEN <<>> ELSE <<Updated(notices[i], d, now)>>])
  /\ Remember
  /\ Goto(t, "done")
  /\ UNCHANGED <<now, notice_lock, stats, request_tracker, issued>>

(* --------------------- delete_notice, lines 338-352 ------------------- *)
\* lines 342-352: under the lock, find the notice and pop it.
DeleteBody(t) ==
  /\ pc[t] = "delete_notice"
  /\ CanAcquire(t)
  /\ \E id \in IdsIn :
       LET i == Find(notices, id)
       IN IF i = 0
            THEN /\ notices' = notices
                 /\ Local(t, [loc[t] EXCEPT !.id = id, !.status = "NOT_FOUND"])
            ELSE /\ notices' = Pop(notices, i)
                 /\ Local(t, [loc[t] EXCEPT !.id = id, !.status = "OK", !.out = <<notices[i]>>])
  /\ Remember
  /\ Goto(t, "done")
  /\ UNCHANGED <<now, notice_lock, stats, request_tracker, issued>>

(* ------------------- graceful_shutdown, lines 356-369 ----------------- *)
\* SIGINT or SIGTERM arrives.  Python runs the handler on the main thread,
\* between two bytecodes of whatever that thread is doing; t is the main
\* thread, here one that serves requests.  The handler ends in sys.exit, so
\* the interrupted code is never resumed.
Signal(t) ==
  /\ pc[t] \notin {"sig_lock", "exited"}
  /\ Goto(t, "sig_lock")
  /\ UNCHANGED <<now, notices, notice_lock, stats, request_tracker, issued, loc, hist>>

\* lines 359-365: take the lock, print, release it, and sys.exit(0) ends the
\* process and with it every thread.
ShutdownExit(t) ==
  /\ pc[t] = "sig_lock"
  /\ CanAcquire(t)
  /\ pc' = [u \in Threads |-> "exited"]
  /\ UNCHANGED <<now, notices, notice_lock, stats, request_tracker, issued, loc, hist>>

(* ----------------- the response is sent; thread is free --------------- *)
Finish(t) ==
  /\ pc[t] = "done"
  /\ Goto(t, "idle")
  /\ Local(t, Locals("none"))
  /\ UNCHANGED <<now, notices, notice_lock, stats, request_tracker, issued, hist>>

(* --------------------------- specifications --------------------------- *)
Admit(t) == RlPrune(t) \/ RlStore(t) \/ RlCheck(t) \/ RlAppend(t)
Count(t) == TrRead(t) \/ TrWrite(t)
Cleanup(t) == ClStart(t) \/ ClScan(t) \/ ClCommit(t)
AddNotice(t, payloads) == AddValidate(t, payloads) \/ AddAppend(t) \/ AddCount(t)
AddBatch(t) == BatchStart(t) \/ BatchLock(t) \/ BatchCheck(t) \/ BatchAppend(t) \/ BatchEnd(t)
Update(t) == UpdateStart(t) \/ UpdateBody(t)
Health(t) == HealthCount(t) \/ HealthSize(t)

\* One request thread serving every route of the store, the janitor and the
\* clock.  With the request cap the limit of RATE_LIMIT calls is never
\* reached here; RateSpec covers the rejection.
Next ==
  \/ Tick(MaxTime)
  \/ Wake
  \/ Cleanup(Janitor)
  \/ \E t \in {"h1"} :
       \/ Begin(t, StoreOps) \/ Admit(t) \/ Count(t)
       \/ Cleanup(t) \/ ListRead(t)
       \/ AddNotice(t, Payloads) \/ AddBatch(t) \/ Update(t) \/ DeleteBody(t)
       \/ Finish(t)

Spec == Init /\ [][Next]_vars

\* Two request threads inserting well-formed notices that outlive the clock,
\* concurrently with each other and with the janitor.
ConcNext ==
  \/ Tick(MaxTime)
  \/ Wake
  \/ Cleanup(Janitor)
  \/ \E t \in Handlers :
       \/ Begin(t, {"add_notice"}) \/ Admit(t) \/ Count(t)
       \/ AddNotice(t, {Good})
       \/ Finish(t)

ConcSpec == Init /\ [][ConcNext]_vars

\* One client calling GET / one call at a time, over more than a window.
RateNext ==
  \/ Tick(RATE_WINDOW + TickSeconds)
  \/ \E t \in {"h1"} :
       \/ Begin(t, RateOps) \/ Admit(t) \/ RlReject(t) \/ Home(t) \/ Finish(t)

RateSpec == Init /\ [][RateNext]_vars

\* One request thread inserting and updating, the janitor and the clock,
\* under the scheduling the threads get: the janitor's sleep ends, a thread
\* that can step does, and the janitor is not starved of the lock forever.
FairNext ==
  \/ Tick(MaxTime)
  \/ Wake
  \/ Cleanup(Janitor)
  \/ \E t \in {"h1"} :
       \/ Begin(t, {"add_notice", "update_notice"}) \/ Admit(t) \/ Count(t)
       \/ AddNotice(t, GoodPayloads) \/ Update(t)
       \/ Finish(t)

Fairness ==
  /\ WF_vars(Wake)
  /\ WF_vars(ClStart(Janitor))
  /\ SF_vars(ClScan(Janitor))
  /\ WF_vars(ClCommit(Janitor))
  /\ \A t \in Handlers : WF_vars(AddCount(t))

FairSpec == Init /\ [][FairNext]_vars /\ Fairness

\* One request thread calling /health and /stats while another inserts
\* notices that expire, with the janitor and the clock.
ReadNext ==
  \/ Tick(MaxTime)
  \/ Wake
  \/ Cleanup(Janitor)
  \/ \E t \in {"h1"} :
       \/ Begin(t, ReadOps) \/ Admit(t) \/ Health(t) \/ GetStats(t) \/ Finish(t)
  \/ \E t \in {"h2"} :
       \/ Begin(t, {"add_notice"}) \/ Admit(t) \/ Count(t)
       \/ AddNotice(t, {Brief})
       \/ Finish(t)

ReadSpec == Init /\ [][ReadNext]_vars

\* The main thread serving inserts, the janitor, and a shutdown signal that
\* may arrive at any moment; every thread that can step eventually does, and
\* none is starved of the lock while it keeps coming free.
SigNext ==
  \/ Tick(MaxTime)
  \/ Wake
  \/ Cleanup(Janitor)
  \/ \E t \in {"h1"} :
       \/ Begin(t, {"add_notice"}) \/ Admit(t) \/ Count(t)
       \/ AddNotice(t, {Brief})
       \/ Finish(t)
       \/ Signal(t) \/ ShutdownExit(t)

SigFairness ==
  /\ WF_vars(Wake)
  /\ WF_vars(ClStart(Janitor))
  /\ SF_vars(ClScan(Janitor))
  /\ WF_vars(ClCommit(Janitor))
  /\ \A t \in {"h1"} :
       /\ WF_vars(Admit(t)) /\ WF_vars(Count(t))
       /\ WF_vars(AddValidate(t, {Brief}))
       /\ SF_vars(AddAppend(t))
       /\ WF_vars(AddCount(t))
       /\ WF_vars(Finish(t))
       /\ SF_vars(ShutdownExit(t))

SigSpec == Init /\ [][SigNext]_vars /\ SigFairness

(* ============================== claims ================================ *)
Stepped(t, from) == pc[t] \in from /\ (pc'[t] # pc[t] \/ loc'[t] # loc[t])
Expiry(n) == FromIso(n.expires_at)

\* C1 (as claimed): a list call never returns a notice whose expires_at is
\* <= the clock at the moment the collection is read.
C1_ListNeverReturnsExpired ==
  [][\A t \in Handlers :
       Stepped(t, {"list"}) =>
         \A i \in 1..Len(loc'[t].out) : Expiry(loc'[t].out[i]) > now]_vars

\* C2: concurrent valid inserts interleaved with reclamation passes all
\* succeed; every insert that passed validation and is not waiting for the
\* lock has its notice in the collection, under an id of its own, and has
\* been counted once in total_notices_created: no insert is lost.
C2_NoLostInsert ==
  LET waiting == Cardinality({t \in Handlers : pc[t] = "add_lock"})
      counting == Cardinality({t \in Handlers : pc[t] = "add_count"})
  IN /\ Len(notices) + waiting = hist.inserts
     /\ Cardinality(Ids(notices)) = Len(notices)
     /\ stats.total_notices_created + counting + waiting = hist.inserts
     /\ \A t \in Handlers : pc[t] = "done" => loc[t].status = "CREATED"

\* Both threads have inserted, and a reclamation pass has run since.
C2_Witness ==
  /\ \A t \in Handlers : pc[t] = "done" /\ loc[t].status = "CREATED"
  /\ Len(notices) = Cardinality(Handlers)
  /\ hist.pass # NoPass

\* C3: stored notices have pairwise distinct ids, and the ids ever stored
\* are as many as the notices ever created: no id is given twice, not even
\* after its notice was deleted or reclaimed.
C3_IdsNeverReused ==
  /\ Cardinality(Ids(notices)) = Len(notices)
  /\ Cardinality(hist.ever) = issued
  /\ Ids(notices) \subseteq hist.ever

\* The first notice is gone and a later one is stored.
C3_Witness == issued >= 2 /\ notices # <<>> /\ Cardinality(hist.ever \ Ids(notices)) >= 1

\* C4: with one call at a time per client, a call is let through iff fewer
\* than RATE_LIMIT of the client's accepted calls lie within the trailing
\* RATE_WINDOW of the call's time; a call let through has its time recorded
\* last, a rejected call records nothing.
InWindow(c, t) ==
  Cardinality({i \in 1..Len(hist.accepted[c]) : hist.accepted[c][i] > t - RATE_WINDOW})

C4_SlidingWindow ==
  [][\A t \in Handlers :
       LET c == loc[t].ip
       IN /\ Stepped(t, {"rl_check"}) =>
               /\ (pc'[t] = "rl_append") <=> (InWindow(c, loc[t].now) < RATE_LIMIT)
               /\ (pc'[t] = "rl_reject") <=> (InWindow(c, loc[t].now) >= RATE_LIMIT)
          /\ Stepped(t, {"rl_append"}) =>
               /\ request_tracker'[c] = Append(request_tracker[c], loc[t].now)
               /\ pc'[t] = Entry(loc[t].op)
          /\ Stepped(t, {"rl_reject"}) =>
               /\ request_tracker' = request_tracker
               /\ loc'[t].status = "RATE_LIMITED"]_vars

\* After a rejection, and a window later, a call is let through again.
C4_Witness ==
  /\ stats.rate_limited_requests >= 1
  /\ now >= RATE_WINDOW
  /\ \E t \in Handlers : pc[t] = "done" /\ loc[t].status = "OK"

\* C5 (as claimed): every stored notice has expires_at strictly greater than
\* its created_at.
C5_ExpiryAfterCreation ==
  \A i \in 1..Len(notices) : Expiry(notices[i]) > FromIso(notices[i].created_at)

\* C6 (as claimed): no statistics counter ever decreases.
C6_CountersNeverDecrease ==
  [][/\ stats'.total_notices_created >= stats.total_notices_created
     /\ stats'.total_requests >= stats.total_requests
     /\ stats'.auto_cleanups >= stats.auto_cleanups
     /\ stats'.rate_limited_requests >= stats.rate_limited_requests]_vars

\* C7 (as claimed): update and delete of an id no stored notice holds fail
\* with NotFoundError whatever the payload, and change nothing.
Ends(t) == Stepped(t, {"update_notice", "update_lock", "delete_notice"}) /\ pc'[t] = "done"

C7_MissingIdNotFound ==
  [][\A t \in Handlers :
       (Ends(t) /\ loc'[t].id \notin Ids(notices)) =>
         /\ loc'[t].status = "NOT_FOUND"
         /\ notices' = notices
         /\ stats'.total_notices_created = stats.total_notices_created]_vars

\* C7 (amended): they change nothing, and fail with NotFoundError unless the
\* update's payload is empty, which is refused (NO_DATA) before the lookup.
C7_MissingIdFails ==
  [][\A t \in Handlers :
       (Ends(t) /\ loc'[t].id \notin Ids(notices)) =>
         /\ loc'[t].status =
              IF loc[t].op = "update_notice" /\ ~Truthy(loc'[t].data) THEN "NO_DATA"
              ELSE "NOT_FOUND"
         /\ notices' = notices
         /\ stats'.total_notices_created = stats.total_notices_created]_vars

\* An update of an unknown id was answered not-found while notices are stored.
C7_Witness ==
  \E t \in Handlers :
    /\ pc[t] = "done" /\ loc[t].op = "update_notice" /\ loc[t].status = "NOT_FOUND"
    /\ Truthy(loc[t].data) /\ notices # <<>>

\* C8: an insert with a field missing or blank, or with an expires_at that is
\* no timestamp or is <= now, is answered with a validation error and leaves
\* the collection and total_notices_created as they were.
Blank(x) == x = Missing \/ \A i \in 1..Len(x) : x[i] = SP
Stamps(x) == {i \in 1..Len(x) : x[i].k = "ts"}
NoTimestamp(x) == Cardinality(Stamps(x)) # 1 \/ \E i \in 1..Len(x) : x[i] # SP /\ x[i].k # "ts"
Rejectable(d, t) ==
  \/ Blank(d.title) \/ Blank(d.message) \/ Blank(d.date) \/ Blank(d.expires_at)
  \/ NoTimestamp(d.expires_at)
  \/ \E i \in Stamps(d.expires_at) : d.expires_at[i].t <= t
ValidationErrors == {"INVALID_JSON", "MISSING_FIELDS", "INVALID_FORMAT", "INVALID_EXPIRY"}

C8_InvalidInsertRejected ==
  [][\A t \in Handlers :
       (Stepped(t, {"add_notice"}) /\ Rejectable(loc'[t].data, now)) =>
         /\ pc'[t] = "done"
         /\ loc'[t].status \in ValidationErrors
         /\ notices' = notices
         /\ stats'.total_notices_created = stats.total_notices_created]_vars

\* An insert whose expires_at is not in the future was refused.
C8_Witness ==
  \E t \in Handlers :
    /\ pc[t] = "done" /\ loc[t].op = "add_notice" /\ loc[t].status = "INVALID_EXPIRY"
    /\ notices # <<>>

\* C9 (as claimed): of two reclamation passes in succession with no insert,
\* update or delete between them, the second changes neither the collection
\* nor the stats.
Second(t) == Stepped(t, {"cl_commit"}) /\ hist.pass # NoPass
Same == /\ notices' = notices
        /\ stats'.auto_cleanups = stats.auto_cleanups
        /\ stats'.last_cleanup = stats.last_cleanup

C9_ReclaimIdempotent == [][\A t \in Threads : Second(t) => Same]_vars

\* C9 (amended): ... provided no stored notice's expires_at lies after the
\* clock value the first pass read and at or before the one the second read.
Between(t) ==
  {i \in 1..Len(notices) :
     \E first \in hist.pass : first < Expiry(notices[i]) /\ Expiry(notices[i]) <= loc[t].now}

C9_ReclaimIdempotentInTime ==
  [][\A t \in Threads : (Second(t) /\ Between(t) = {}) => Same]_vars

\* A second pass, begun after the clock moved on, has scanned a list that
\* holds notices and found nothing to remove.
C9_Witness ==
  \E t \in Threads :
    /\ pc[t] = "cl_commit" /\ hist.pass # NoPass /\ notices # <<>> /\ Between(t) = {}
    /\ loc[t].valid = notices
    /\ \E first \in hist.pass : first < loc[t].now

\* C10: with the janitor scheduled fairly, a stored notice whose expires_at
\* has passed does not stay so: it leaves the collection, unless an update
\* gives it a later expires_at first; and an id that has left the collection
\* never comes back.
ExpiredStored(i) == \E k \in 1..Len(notices) : notices[k].id = i /\ Expiry(notices[k]) <= now
Gone(i) == i \in hist.ever /\ i \notin Ids(notices)

C10_ExpiredEventuallyReclaimed ==
  /\ \A i \in 1..(MaxIds + 1) : ExpiredStored(i) ~> ~ExpiredStored(i)
  /\ [][\A i \in 1..(MaxIds + 1) : Gone(i) => Gone(i)']_vars

\* A notice that had expired in the collection has been reclaimed.
C10_Witness ==
  /\ \E i \in 1..MaxIds : Gone(i)
  /\ stats.auto_cleanups >= 1
  /\ now >= TickSeconds

\* C11: a list call with the default sort key returns exactly the stored
\* notices whose title or message contains the search text, letter case
\* ignored (all of them when the text is empty), newest created_at first, cut
\* to the first limit notices when limit > 0.
Matches(n, search) ==
  Contains(Lower(n.title), Lower(search)) \/ Contains(Lower(n.message), Lower(search))
Matching(search) == {i \in 1..Len(notices) : Matches(notices[i], search)}
Created(n) == FromIso(n.created_at)
Smaller(a, b) == IF a < b THEN a ELSE b

C11_ListFilterSortLimit ==
  [][\A t \in Handlers :
       (Stepped(t, {"list"}) /\ loc'[t].query.sort_by = "created_at") =>
         LET q == loc'[t].query
             out == loc'[t].out
             hits == Matching(q.search)
         IN /\ Len(out) = IF q.limit > 0 THEN Smaller(q.limit, Cardinality(hits))
                                         ELSE Cardinality(hits)
            /\ \A i \in 1..Len(out) : \E k \in hits : notices[k] = out[i]
            /\ \A i, j \in 1..Len(out) : i < j => /\ out[i].id # out[j].id
                                                  /\ Created(out[i]) >= Created(out[j])
            /\ \A k \in hits :
                 (\A i \in 1..Len(out) : out[i] # notices[k]) =>
                   \A i \in 1..Len(out) : Created(out[i]) >= Created(notices[k])]_vars

\* A search in capitals returned two notices, the newer one first, which the
\* list holds in the other order.
C11_Witness ==
  \E t \in Handlers :
    /\ pc[t] = "done" /\ loc[t].op = "get_notices"
    /\ loc[t].query.search # <<>> /\ loc[t].query.sort_by = "created_at"
    /\ Len(loc[t].out) = 2 /\ Len(notices) = 2
    /\ loc[t].out[1] = notices[2] /\ loc[t].out[2] = notices[1]
    /\ Created(notices[2]) > Created(notices[1])

\* C12: the items of a batch are validated one by one.  An item that fails
\* stores nothing and adds one error entry carrying its index; an item that
\* passes is appended to the collection and its id to the added ids, whatever
\* became of the other items; when the batch ends, added ids and error
\* entries are as many as the items, and the notices stored are the items
\* without an error entry, in batch order.
ErrorIndexes(t) == {loc[t].errors[i].index : i \in 1..Len(loc[t].errors)}
Passed(t) == {i \in 0..(Len(loc[t].batch) - 1) : i \notin ErrorIndexes(t)}
Nth(S, j) == CHOOSE i \in S : Cardinality({k \in S : k < i}) = j - 1
FromItem(n, d) ==
  /\ n.title = Strip(d.title) /\ n.message = Strip(d.message)
  /\ n.date = Strip(d.date) /\ n.expires_at = Strip(d.expires_at)

C12_BatchItemsIndependent ==
  [][\A t \in Handlers :
       /\ (Stepped(t, {"batch_item"}) /\ loc[t].items # <<>>) =>
            LET d == Head(loc[t].items)
                idx == Len(loc[t].batch) - Len(loc[t].items)
            IN /\ d = loc[t].batch[idx + 1]
               /\ notices' = notices /\ loc'[t].added = loc[t].added
               /\ IF Rejectable(d, now)
                    THEN /\ Len(loc'[t].errors) = Len(loc[t].errors) + 1
                         /\ loc'[t].errors[Len(loc'[t].errors)].index = idx
                         /\ SubSeq(loc'[t].errors, 1, Len(loc[t].errors)) = loc[t].errors
                         /\ loc'[t].items = Tail(loc[t].items)
                    ELSE /\ pc'[t] = "batch_append" /\ loc'[t] = loc[t]
       /\ Stepped(t, {"batch_append"}) =>
            /\ Len(notices') = Len(notices) + 1
            /\ SubSeq(notices', 1, Len(notices)) = notices
            /\ FromItem(notices'[Len(notices')], Head(loc[t].items))
            /\ loc'[t].added = Append(loc[t].added, notices'[Len(notices')].id)
            /\ loc'[t].errors = loc[t].errors
            /\ loc'[t].items = Tail(loc[t].items)
       /\ (Stepped(t, {"batch_item"}) /\ loc[t].items = <<>>) =>
            LET k == Len(loc[t].batch)
                a == Len(loc[t].added)
            IN /\ a + Len(loc[t].errors) = k
               /\ Cardinality(ErrorIndexes(t)) = Len(loc[t].errors)
               /\ ErrorIndexes(t) \subseteq 0..(k - 1)
               /\ a <= Len(notices)
               /\ \A j \in 1..a :
                    LET n == notices[Len(notices) - a + j]
                    IN /\ n.id = loc[t].added[j]
                       /\ FromItem(n, loc[t].batch[Nth(Passed(t), j) + 1])
               /\ notices' = notices]_vars

\* A batch whose first item failed and whose second was stored has ended.
C12_Witness ==
  \E t \in Handlers :
    /\ pc[t] = "done" /\ loc[t].op = "add_notices_batch"
    /\ Len(loc[t].batch) = 2 /\ Len(loc[t].added) = 1 /\ Len(loc[t].errors) = 1
    /\ loc[t].errors[1].index = 0
    /\ \E i \in 1..Len(notices) : notices[i].id = loc[t].added[1]

\* C13 (as claimed): every step of a thread that reads or changes the notice
\* collection is taken while that thread holds notice_lock (it holds it
\* already, or the step is a `with notice_lock` block it enters with the lock
\* free), and the lock has one holder at most.
Touching ==
  {"cl_lock", "cl_commit", "list", "add_lock", "batch_append", "update_lock",
   "delete_notice", "health_check", "health_size", "get_stats"}
Entering ==
  {"cl_lock", "list", "add_lock", "batch_lock", "update_lock", "delete_notice",
   "health_check", "get_stats"}
Holds(t) == notice_lock = t \/ (pc[t] \in Entering /\ notice_lock = NoThread)

C13_CollectionAccessLocked ==
  [][/\ \A t \in Threads : Stepped(t, Touching) => Holds(t)
     /\ \A t, u \in Threads : (t # u /\ Stepped(t, Entering)) => notice_lock # u]_vars

\* A health check has answered with a size read from a list that is no
\* longer the one it counted, while another thread holds the lock.
C13_Witness ==
  \E t \in Handlers :
    /\ pc[t] = "done" /\ loc[t].op = "health_check"
    /\ loc[t].resp.notices_count # loc[t].resp.memory_usage
    /\ notice_lock \in Threads \ {t}

\* C14 (as claimed): with concurrent calls of one client, no trailing window
\* of RATE_WINDOW seconds holds more than RATE_LIMIT accepted calls, and the
\* time of every accepted call is in the client's list for as long as it is
\* less than RATE_WINDOW old.
Times(q) == {q[i] : i \in 1..Len(q)}
Copies(q, v) == Cardinality({i \in 1..Len(q) : q[i] = v})
Trailing(c, v) ==
  Cardinality({i \in 1..Len(hist.accepted[c]) :
                 v - RATE_WINDOW < hist.accepted[c][i] /\ hist.accepted[c][i] <= v})

C14_WindowHoldsUnderConcurrency ==
  \A c \in Clients :
    /\ \A v \in Times(hist.accepted[c]) : Trailing(c, v) <= RATE_LIMIT
    /\ \A v \in Times(hist.accepted[c]) :
         v > now - RATE_WINDOW => Copies(request_tracker[c], v) >= Copies(hist.accepted[c], v)

\* A call was let through and its time is no longer in the client's list.
C14_Witness ==
  \E c \in Clients, t \in Handlers :
    /\ pc[t] = "done" /\ loc[t].status = "CREATED" /\ loc[t].ip = c
    /\ Len(hist.accepted[c]) > Len(request_tracker[c])
    /\ now < RATE_WINDOW

\* C15 (as claimed): an update of a stored notice whose payload carries an
\* expires_at that is no timestamp, or one not after now, is answered with a
\* validation error and leaves the notice as it was, also when the payload
\* carries a title or a message.
BadExpiry(d, t) ==
  /\ d.expires_at # Missing
  /\ \/ Len(d.expires_at) # 1
     \/ d.expires_at[1].k # "ts"
     \/ d.expires_at[1].t <= t

C15_RefusedUpdateChangesNothing ==
  [][\A t \in Handlers :
       (/\ Stepped(t, {"update_lock"})
        /\ loc[t].id \in Ids(notices)
        /\ BadExpiry(loc[t].data, now)) =>
         /\ loc'[t].status = "BAD_REQUEST"
         /\ notices' = notices]_vars

\* An update was refused for its expires_at, and the notice it named has the
\* title of the refused payload.
C15_Witness ==
  \E t \in Handlers :
    /\ pc[t] = "done" /\ loc[t].op = "update_notice" /\ loc[t].status = "BAD_REQUEST"
    /\ loc[t].data.title # Missing
    /\ \E i \in 1..Len(notices) :
         notices[i].id = loc[t].id /\ notices[i].title = Strip(loc[t].data.title)

\* C16 (as claimed): every stored notice has a title, a message and a date
\* that are non-empty after trimming.
C16_StoredFieldsNonEmpty ==
  \A i \in 1..Len(notices) :
    /\ Strip(notices[i].title) # <<>>
    /\ Strip(notices[i].message) # <<>>
    /\ Strip(notices[i].date) # <<>>

\* An update with a blank title was answered 200 and the notice has no title.
C16_Witness ==
  \E t \in Handlers :
    /\ pc[t] = "done" /\ loc[t].op = "update_notice" /\ loc[t].status = "OK"
    /\ \E i \in 1..Len(notices) : notices[i].id = loc[t].id /\ notices[i].title = <<>>

\* C17: a reclamation pass that read clock value t leaves in the collection
\* exactly the notices stored before whose expires_at is a timestamp after t,
\* in the order they had and as they were.
Active(n, t) ==
  /\ Len(n.expires_at) = 1 /\ n.expires_at[1].k = "ts"
  /\ n.expires_at[1].t > t
Survivors(t) == {i \in 1..Len(notices) : Active(notices[i], t)}

C17_PassKeepsExactlyActive ==
  [][\A t \in Threads :
       Stepped(t, {"cl_commit"}) =>
         /\ Len(notices') = Cardinality(Survivors(loc[t].now))
         /\ \A j \in 1..Len(notices') :
              notices'[j] = notices[Nth(Survivors(loc[t].now), j)]]_vars

\* The last pass removed a notice and kept the ones stored before it began.
C17_Witness ==
  /\ hist.pass # NoPass /\ notices # <<>>
  /\ stats.last_cleanup # None /\ FromIso(stats.last_cleanup) \in hist.pass
  /\ \A i \in 1..Len(notices) : \A first \in hist.pass : Created(notices[i]) < first

\* C18: whenever notice_lock is free, and in every answer of GET /stats,
\* total_notices_created is the number of notices appended so far,
\* auto_cleanups is the number of reclamation passes that removed a notice,
\* and the notices stored are no more than total_notices_created.
Agrees(st, active) ==
  /\ st.total_notices_created = Cardinality(hist.ever)
  /\ st.auto_cleanups = hist.reclaims
  /\ active <= st.total_notices_created

C18_StatsAgreeWithStore ==
  /\ [](notice_lock = NoThread => Agrees(stats, Len(notices)))
  /\ [][\A t \in Handlers :
          Stepped(t, {"get_stats"}) =>
            /\ loc'[t].resp.active_notices = Len(notices)
            /\ Agrees(loc'[t].resp.stats, loc'[t].resp.active_notices)]_vars

\* GET /stats has answered after two inserts and a pass that removed a notice.
C18_Witness ==
  \E t \in Handlers :
    /\ pc[t] = "done" /\ loc[t].op = "get_stats"
    /\ loc[t].resp.stats.auto_cleanups >= 1
    /\ loc[t].resp.stats.total_notices_created >= 2
    /\ loc[t].resp.active_notices < loc[t].resp.stats.total_notices_created

\* C19 (as claimed): a thread that has taken notice_lock releases it, and a
\* thread waiting for the lock, the shutdown handler included, gets it: no
\* thread waits forever.
Waiting == {"cl_lock", "add_lock", "sig_lock"}

C19_NoThreadWaitsForever ==
  \A t \in Threads :
    /\ (notice_lock = t) ~> (notice_lock # t)
    /\ \A l \in Waiting : (pc[t] = l) ~> (pc[t] # l)

\* The shutdown handler waits for the lock its own thread holds.
C19_Witness ==
  \E t \in Handlers : pc[t] = "sig_lock" /\ notice_lock = t

\* C20 (as claimed): a stored notice whose expires_at is <= now never has an
\* expires_at > now again, whatever operation comes next.
ActiveStored(i) == \E k \in 1..Len(notices) : notices[k].id = i /\ Expiry(notices[k]) > now

C20_ExpiredNeverRevived ==
  [][\A i \in 1..(MaxIds + 1) : ExpiredStored(i) => ~ActiveStored(i)']_vars

====
